---- MODULE Spec2Model ----
(***************************************************************************)
(* PatchOps vulnerability impact and patch-planning engine.                *)
(*                                                                         *)
(*   PackageAnalyzer      src/patchops/src/data-pipeline/package-analyzer.ts *)
(*   VulnerabilityMonitor src/patchops/src/data-pipeline/package-analyzer.ts *)
(*                        (second half of the file, lines 458-853)         *)
(*   PatchAnalyzer        src/unnamed/part_001                             *)
(*                                                                         *)
(* Strings that the code inspects character by character (versions and     *)
(* version ranges) are sequences of one-character strings.  Numbers with   *)
(* a fractional part (CVSS scores, threat scores before rounding) are      *)
(* fixed-point integers; the scale is stated at each use.                  *)
(***************************************************************************)
EXTENDS Integers, Sequences, FiniteSets, TLC

VARIABLES
    isRunning,      \* VulnerabilityMonitor.isRunning
    scheduledTask,  \* VulnerabilityMonitor.scheduledTask: 0 = undefined, else a cron task id
    cronTasks,      \* the cron tasks created so far and not stopped
    tasks,          \* the invocations made on the monitor, by invocation number
    vulnDb,         \* persisted vulnerability ids (VulnerabilityDatabase)
    repoStatus,     \* persisted RepositoryMonitoring rows, by repository id
    savedHits,      \* persisted critical hits: the saveCriticalHits calls, in order
    scanHistory,    \* persisted scan results: the saveScanResult calls, in order
    prs,            \* remediation requests created (GitHubBot.createPatchPR calls), in order
    useLLM,         \* PatchAnalyzer.useLLM: an API key for the reasoning backend is configured
    faults,         \* collaborator failures injected so far
    probe           \* the inputs and outputs of the pure-function harnesses

vars == <<isRunning, scheduledTask, cronTasks, tasks, vulnDb, repoStatus,
          savedHits, scanHistory, prs, useLLM, faults, probe>>

monitorVars == <<isRunning, scheduledTask, cronTasks, tasks, vulnDb, repoStatus,
                 savedHits, scanHistory, prs, useLLM, faults>>

-----------------------------------------------------------------------------
(* Sequence helpers *)

Range(s) == {s[i] : i \in 1..Len(s)}

Min(a, b) == IF a < b THEN a ELSE b

-----------------------------------------------------------------------------
(* node-semver, as called by the code.  Versions are MAJOR.MINOR.PATCH     *)
(* with an optional leading "v"; prerelease and build suffixes are outside *)
(* the alphabet.  A range is one comparator: "", "*", or one of the        *)
(* operators  <  >=  ^  ~  (or none) followed by a version of one to three *)
(* numeric components.                                                     *)

Digits == {"0", "1", "2", "3", "4", "5", "6", "7", "8", "9"}

DigitVal(c) ==
    CASE c = "0" -> 0 [] c = "1" -> 1 [] c = "2" -> 2 [] c = "3" -> 3
      [] c = "4" -> 4 [] c = "5" -> 5 [] c = "6" -> 6 [] c = "7" -> 7
      [] c = "8" -> 8 [] c = "9" -> 9

\* String.prototype.replace(/^[^0-9]*/, ''): drop the leading non-digits.
RECURSIVE StripLeadingNonDigits(_)
StripLeadingNonDigits(s) ==
    IF s = <<>> THEN <<>>
    ELSE IF Head(s) \in Digits THEN s
    ELSE StripLeadingNonDigits(Tail(s))

\* String.prototype.replace(/^[>=<^~]+/, ''): drop the leading range operators.
RangeOpChars == {">", "=", "<", "^", "~"}

RECURSIVE StripLeadingOps(_)
StripLeadingOps(s) ==
    IF s = <<>> THEN <<>>
    ELSE IF Head(s) \in RangeOpChars THEN StripLeadingOps(Tail(s))
    ELSE s

\* The components of s between the dots, in order.
RECURSIVE SplitDots(_, _)
SplitDots(s, cur) ==
    IF s = <<>> THEN <<cur>>
    ELSE IF Head(s) = "." THEN <<cur>> \o SplitDots(Tail(s), <<>>)
    ELSE SplitDots(Tail(s), Append(cur, Head(s)))

\* A numeric identifier: digits, no leading zero unless it is "0".
IsNumericId(c) ==
    /\ c # <<>>
    /\ \A i \in 1..Len(c) : c[i] \in Digits
    /\ (Len(c) > 1 => c[1] # "0")

RECURSIVE NumVal(_, _)
NumVal(c, acc) ==
    IF c = <<>> THEN acc ELSE NumVal(Tail(c), acc * 10 + DigitVal(Head(c)))

\* new SemVer(s): [ok, v] with v = <<major, minor, patch>>; ok = FALSE where
\* the constructor throws.
ParseSemVer(s) ==
    LET body  == IF s # <<>> /\ Head(s) = "v" THEN Tail(s) ELSE s
        comps == SplitDots(body, <<>>)
    IN  IF Len(comps) = 3 /\ \A i \in 1..3 : IsNumericId(comps[i])
        THEN [ok |-> TRUE,
              v  |-> <<NumVal(comps[1], 0), NumVal(comps[2], 0), NumVal(comps[3], 0)>>]
        ELSE [ok |-> FALSE, v |-> <<0, 0, 0>>]

\* semver.compare on parsed versions: a < b.
VerLess(a, b) ==
    \/ a[1] < b[1]
    \/ a[1] = b[1] /\ a[2] < b[2]
    \/ a[1] = b[1] /\ a[2] = b[2] /\ a[3] < b[3]

\* The operator a range starts with, and the rest.
RangeOp(r) ==
    IF r = <<>> THEN ""
    ELSE IF Len(r) >= 2 /\ r[1] = ">" /\ r[2] = "=" THEN ">="
    ELSE IF r[1] \in {"<", "^", "~"} THEN r[1]
    ELSE ""

RangeOperand(r) ==
    LET op == RangeOp(r)
    IN  IF op = ">=" THEN SubSeq(r, 3, Len(r))
        ELSE IF op = "" THEN r
        ELSE Tail(r)

\* new Range(r): [ok, lo, hasHi, hi], the versions v with lo <= v and, if
\* hasHi, v < hi; ok = FALSE where the constructor throws.
InvalidRange == [ok |-> FALSE, lo |-> <<0, 0, 0>>, hasHi |-> FALSE, hi |-> <<0, 0, 0>>]

AnyRange == [ok |-> TRUE, lo |-> <<0, 0, 0>>, hasHi |-> FALSE, hi |-> <<0, 0, 0>>]

Interval(lo, hi) == [ok |-> TRUE, lo |-> lo, hasHi |-> TRUE, hi |-> hi]

ParseRange(r) ==
    IF r = <<>> \/ r = <<"*">> THEN AnyRange
    ELSE
    LET op    == RangeOp(r)
        comps == SplitDots(RangeOperand(r), <<>>)
        n     == Len(comps)
    IN  IF ~(n \in 1..3 /\ \A i \in 1..n : IsNumericId(comps[i])) THEN InvalidRange
        ELSE
        LET M  == NumVal(comps[1], 0)
            m  == IF n >= 2 THEN NumVal(comps[2], 0) ELSE 0
            p  == IF n = 3 THEN NumVal(comps[3], 0) ELSE 0
            lo == <<M, m, p>>
        IN  CASE op = "<"  -> Interval(<<0, 0, 0>>, lo)
              [] op = ">=" -> [ok |-> TRUE, lo |-> lo, hasHi |-> FALSE, hi |-> <<0, 0, 0>>]
              [] op = "~"  -> IF n = 1 THEN Interval(lo, <<M + 1, 0, 0>>)
                              ELSE Interval(lo, <<M, m + 1, 0>>)
              [] op = "^"  -> IF M > 0 \/ n = 1 THEN Interval(lo, <<M + 1, 0, 0>>)
                              ELSE IF m > 0 \/ n = 2 THEN Interval(lo, <<0, m + 1, 0>>)
                              ELSE Interval(lo, <<0, 0, p + 1>>)
              [] op = ""   -> IF n = 1 THEN Interval(lo, <<M + 1, 0, 0>>)
                              ELSE IF n = 2 THEN Interval(lo, <<M, m + 1, 0>>)
                              ELSE Interval(lo, <<M, m, p + 1>>)

\* semver.satisfies(version, range): false, not an exception, when either
\* argument does not parse.
SemverSatisfies(version, range) ==
    LET rg == ParseRange(range)
        sv == ParseSemVer(version)
    IN  IF ~rg.ok THEN FALSE
        ELSE IF ~sv.ok THEN FALSE
        ELSE /\ ~VerLess(sv.v, rg.lo)
             /\ (rg.hasHi => VerLess(sv.v, rg.hi))

\* semver.valid(s): the version or null.
SemverValid(s) == ParseSemVer(s).ok

-----------------------------------------------------------------------------
(* The world the collaborators expose: the advisory feed's records and the *)
(* monitored repositories' manifests.  GitHubBot, the intelligence scanner *)
(* and the database are collaborators; what they return is drawn from      *)
(* these.                                                                  *)

V(str) == str   \* a version or range literal, written as its characters

Advisories ==
    [ CVE_A |->
        [id |-> "CVE_A", packageName |-> "axios", ecosystem |-> "npm",
         severity |-> "high", cvss10 |-> 75,
         affectedVersions |-> V(<<"<", "0", ".", "2", "1", ".", "1">>),
         fixedVersions    |-> V(<<">", "=", "0", ".", "2", "1", ".", "1">>),
         isZeroDay |-> FALSE, exploitAvailable |-> TRUE, isKEV |-> FALSE],
      CVE_M |->
        [id |-> "CVE_M", packageName |-> "minimist", ecosystem |-> "npm",
         severity |-> "critical", cvss10 |-> 0,
         affectedVersions |-> V(<<"<", "1", ".", "2", ".", "6">>),
         fixedVersions    |-> V(<<">", "=", "1", ".", "2", ".", "6">>),
         isZeroDay |-> TRUE, exploitAvailable |-> FALSE, isKEV |-> TRUE],
      CVE_L |->
        [id |-> "CVE_L", packageName |-> "lodash", ecosystem |-> "npm",
         severity |-> "low", cvss10 |-> 10,
         affectedVersions |-> V(<<"<", "4", ".", "1", "7", ".", "2", "1">>),
         fixedVersions    |-> V(<<"4", ".", "1", "7", ".", "2", "1">>),
         isZeroDay |-> FALSE, exploitAvailable |-> FALSE, isKEV |-> FALSE] ]

AdvisoryIds == DOMAIN Advisories

\* The ids in feed order.
AdvisoryOrder == <<"CVE_A", "CVE_M", "CVE_L">>

ConfiguredRepos == <<"acme/api", "acme/web">>

RepoIds == Range(ConfiguredRepos)

\* What is on the source-control host: package.json's dependencies and
\* devDependencies in key order, and the entries the lockfile scan's regular
\* expression matches, in order.
ManifestOf(repoId) ==
    IF repoId = "acme/api"
    THEN [dependencies    |-> << <<"express", V(<<"4", ".", "1", "8", ".", "2">>)>>,
                                 <<"axios", V(<<"^", "0", ".", "1", "9", ".", "0">>)>> >>,
          devDependencies |-> << >>,
          lockEntries     |-> << <<"minimist", V(<<"1", ".", "2", ".", "0">>)>>,
                                 <<"lodash", V(<<"4", ".", "1", "7", ".", "2", "0">>)>> >>]
    ELSE [dependencies    |-> << <<"axios", V(<<"0", ".", "2", "1", ".", "1">>)>> >>,
          devDependencies |-> << <<"minimist", V(<<"~", "1", ".", "2", ".", "5">>)>> >>,
          lockEntries     |-> << <<"lodash", V(<<"4", ".", "1", "7", ".", "2", "1">>)>> >>]

\* String.prototype.localeCompare on the package names that occur.
NameOrder == <<"axios", "express", "lodash", "minimist", "react", "vue">>

NameRank(name) == CHOOSE i \in 1..Len(NameOrder) : NameOrder[i] = name

-----------------------------------------------------------------------------
(* PackageAnalyzer *)

\* Array.prototype.sort (stable) of <<key, value>> pairs by ascending key;
\* the values, in order.
RECURSIVE InsertSorted(_, _)
InsertSorted(s, x) ==
    IF s = <<>> THEN <<x>>
    ELSE IF x[1] < Head(s)[1] THEN <<x>> \o s
    ELSE <<Head(s)>> \o InsertSorted(Tail(s), x)

RECURSIVE SortPairs(_)
SortPairs(s) ==
    IF s = <<>> THEN <<>>
    ELSE InsertSorted(SortPairs(SubSeq(s, 1, Len(s) - 1)), s[Len(s)])

StableSort(pairs) ==
    LET sorted == SortPairs(pairs)
    IN  [i \in 1..Len(sorted) |-> sorted[i][2]]

\* [...new Set(s)]: first occurrences, in order.
RECURSIVE Dedupe(_)
Dedupe(s) ==
    IF s = <<>> THEN <<>>
    ELSE LET d == Dedupe(SubSeq(s, 1, Len(s) - 1))
         IN  IF s[Len(s)] \in Range(d) THEN d ELSE Append(d, s[Len(s)])

DirectPackage(entry, manifestPath) ==
    [name |-> entry[1], version |-> entry[2], ecosystem |-> "npm",
     isDirect |-> TRUE, isTransitive |-> FALSE, manifestFile |-> manifestPath]

TransitivePackage(entry, lockfilePath) ==
    [name |-> entry[1], version |-> entry[2], ecosystem |-> "npm",
     isDirect |-> FALSE, isTransitive |-> TRUE, manifestFile |-> lockfilePath]

\* parseNpmLockfile: the entries the regular expression matches; [] when the
\* file is absent or the fetch throws.
parseNpmLockfile(lockEntries, lockfilePath, lockFetch) ==
    IF lockFetch # "ok" THEN <<>>
    ELSE [i \in 1..Len(lockEntries) |-> TransitivePackage(lockEntries[i], lockfilePath)]

\* parseManifest on a manifest that was fetched (lines 45-88): the packages
\* of dependencies, of devDependencies and of the lockfile, sorted by name.
ManifestPackages(mf, repo, lockFetch) ==
    LET deps == [i \in 1..Len(mf.dependencies) |->
                    DirectPackage(mf.dependencies[i], repo.manifestPath)]
        devs == [i \in 1..Len(mf.devDependencies) |->
                    DirectPackage(mf.devDependencies[i], repo.manifestPath)]
        lock == IF repo.lockfilePath # ""
                THEN parseNpmLockfile(mf.lockEntries, repo.lockfilePath, lockFetch)
                ELSE <<>>
        all  == deps \o devs \o lock
    IN  StableSort([i \in 1..Len(all) |-> <<NameRank(all[i].name), all[i]>>])

\* parseManifest.  manifestFetch and lockFetch are what getFileContent does
\* for the two files: "ok", "absent" (null) or "throw".
parseManifest(repo, manifestFetch, lockFetch) ==
    IF manifestFetch # "ok" THEN <<>>
    ELSE IF repo.packageManager # "npm" THEN <<>>
    ELSE ManifestPackages(ManifestOf(repo.repositoryId), repo, lockFetch)

\* isVersionAffected.  semver.satisfies never throws on strings, so the
\* catch branch (return true) is taken only when version is not a string.
isVersionAffected(version, affectedRange) ==
    LET cleanVersion == StripLeadingNonDigits(version)
    IN  SemverSatisfies(cleanVersion, affectedRange)

\* matchVulnerablePackages: packages outer, vulnerabilities inner.
RECURSIVE MatchOne(_, _)
MatchOne(pkg, vulns) ==
    IF vulns = <<>> THEN <<>>
    ELSE LET vuln == Head(vulns)
             rest == MatchOne(pkg, Tail(vulns))
         IN  IF /\ pkg.name = vuln.packageName
                /\ pkg.ecosystem = vuln.ecosystem
                /\ isVersionAffected(pkg.version, vuln.affectedVersions)
             THEN <<[package |-> pkg, vulnerability |-> vuln]>> \o rest
             ELSE rest

RECURSIVE matchVulnerablePackages(_, _)
matchVulnerablePackages(packages, vulns) ==
    IF packages = <<>> THEN <<>>
    ELSE MatchOne(Head(packages), vulns) \o matchVulnerablePackages(Tail(packages), vulns)

getSourceFilePatterns(packageManager) ==
    CASE packageManager = "npm" -> <<"**/*.js", "**/*.ts", "**/*.jsx", "**/*.tsx", "**/*.vue">>
      [] packageManager = "pip" -> <<"**/*.py">>
      [] packageManager \in {"maven", "gradle"} -> <<"**/*.java", "**/*.kt">>
      [] OTHER -> <<"**/*">>

knownPackages == {"axios", "lodash", "express", "react", "vue"}

\* `src/utils/${packageName}.js`
UtilsFile(packageName) ==
    CASE packageName = "axios"   -> "src/utils/axios.js"
      [] packageName = "lodash"  -> "src/utils/lodash.js"
      [] packageName = "express" -> "src/utils/express.js"
      [] packageName = "react"   -> "src/utils/react.js"
      [] packageName = "vue"     -> "src/utils/vue.js"

\* searchForImports
searchForImports(packageName, filePattern) ==
    IF packageName \in knownPackages
    THEN [found |-> TRUE,
          files |-> <<"src/index.js", UtilsFile(packageName)>>,
          count |-> 2]
    ELSE [found |-> FALSE, files |-> <<>>, count |-> 0]

RECURSIVE CollectImports(_, _, _)
CollectImports(packageName, patterns, acc) ==
    IF patterns = <<>> THEN acc
    ELSE LET hasImports == searchForImports(packageName, Head(patterns))
         IN  CollectImports(packageName, Tail(patterns),
                IF hasImports.found
                THEN [importFiles |-> acc.importFiles \o hasImports.files,
                      usageCount  |-> acc.usageCount + hasImports.count]
                ELSE acc)

\* analyzePackageImports
analyzePackageImports(packageName, packageManager) ==
    LET acc == CollectImports(packageName, getSourceFilePatterns(packageManager),
                              [importFiles |-> <<>>, usageCount |-> 0])
    IN  [packageName |-> packageName,
         isImported  |-> Len(acc.importFiles) > 0,
         importFiles |-> Dedupe(acc.importFiles),
         usageCount  |-> acc.usageCount]

\* analyzePackageUsage: one usage per name, in order.
analyzePackageUsage(repo, packageNames) ==
    [i \in 1..Len(packageNames) |-> analyzePackageImports(packageNames[i], repo.packageManager)]

severityScores(severity) ==
    CASE severity = "critical" -> 90
      [] severity = "high"     -> 70
      [] severity = "medium"   -> 50
      [] severity = "low"      -> 20
      [] OTHER                 -> 50

\* The fixed-point scale of a score before rounding: 1/ScoreScale.  Each of
\* the five multipliers has one decimal, so nothing is lost.
ScoreScale == 10000

\* Math.round: the nearest integer, halves up.
RoundScaled(s) == (s + ScoreScale \div 2) \div ScoreScale

\* A variant of the usage adjustment that treats every package as imported
\* in no file it can count.
UsageBlind(score, usage) == (score * 15) \div 10

\* The usage adjustment (lines 388-394): imported packages are amplified and
\* gain 5 per usage, the others are reduced.
UsageAdjusted(score, usage) ==
    IF usage.isImported
    THEN (score * 15) \div 10 + usage.usageCount * 5 * ScoreScale
    ELSE (score * 3) \div 10

\* The score before Math.round and the clamp, in 1/ScoreScale.  cvss10 is
\* the CVSS score in tenths, 0 when absent (0 is falsy at line 381).
RawThreatScore(vuln, pkg, usage) ==
    LET base == IF vuln.cvss10 # 0 THEN vuln.cvss10 ELSE severityScores(vuln.severity)
        s0 == base * ScoreScale
        s1 == UsageAdjusted(s0, usage)
        s2 == IF pkg.isDirect THEN (s1 * 12) \div 10 ELSE s1
        s3 == IF vuln.isZeroDay THEN (s2 * 13) \div 10 ELSE s2
        s4 == IF vuln.exploitAvailable THEN (s3 * 14) \div 10 ELSE s3
    IN  s4

\* A variant of calculateThreatScore without the cap at 100.
UncappedThreatScore(vuln, pkg, usage) == RoundScaled(RawThreatScore(vuln, pkg, usage))

\* calculateThreatScore
calculateThreatScore(vuln, pkg, usage) ==
    Min(RoundScaled(RawThreatScore(vuln, pkg, usage)), 100)

\* A variant that grades a hit by the configured critical-hit threshold.
ImpactByThreshold(usage, threatScore) ==
    IF threatScore >= 70 THEN "CRITICAL_HIT" ELSE "LOW_PRIORITY"

\* The impact level of a hit (findCriticalHits, line 164).
ImpactLevel(usage, threatScore) ==
    IF usage.isImported THEN "CRITICAL_HIT" ELSE "LOW_PRIORITY"

\* usageAnalysis.find(u => u.packageName === name): the first, or none.
FindUsage(usageAnalysis, name) ==
    LET idx == {i \in 1..Len(usageAnalysis) : usageAnalysis[i].packageName = name}
    IN  IF idx = {} THEN <<>>
        ELSE <<usageAnalysis[CHOOSE i \in idx : \A j \in idx : i <= j]>>

\* A hit holds its vulnerability record by id (Advisories[hit.vulnerability]).
BuildHit(vp, usage) ==
    LET threatScore == calculateThreatScore(vp.vulnerability, vp.package, usage)
    IN  [vulnerability |-> vp.vulnerability.id,
         packageInfo   |-> vp.package,
         usage         |-> usage,
         impactLevel   |-> ImpactLevel(usage, threatScore),
         threatScore   |-> threatScore]

RECURSIVE BuildHits(_, _)
BuildHits(vulnerablePackages, usageAnalysis) ==
    IF vulnerablePackages = <<>> THEN <<>>
    ELSE LET vp == Head(vulnerablePackages)
             u  == FindUsage(usageAnalysis, vp.package.name)
             rest == BuildHits(Tail(vulnerablePackages), usageAnalysis)
         IN  IF u = <<>> THEN rest ELSE <<BuildHit(vp, u[1])>> \o rest

\* A variant of findCriticalHits that analyses usage whatever matched.
UsageAlwaysAnalysed(vulnerablePackages) == TRUE

\* findCriticalHits, lines 150-157: with nothing matched it returns before
\* analyzePackageUsage.
UsageAnalysed(vulnerablePackages) == vulnerablePackages # <<>>

\* findCriticalHits: parses the manifest again, matches, analyses usage of
\* the matched packages only, and sorts by descending score.  It catches
\* every failure and returns [].
findCriticalHits(repo, vulns, manifestFetch, lockFetch) ==
    LET packages == parseManifest(repo, manifestFetch, lockFetch)
        vulnerablePackages == matchVulnerablePackages(packages, vulns)
    IN  IF ~UsageAnalysed(vulnerablePackages) THEN <<>>
        ELSE
        LET packageNames ==
                [i \in 1..Len(vulnerablePackages) |-> vulnerablePackages[i].package.name]
            usageAnalysis == analyzePackageUsage(repo, packageNames)
            criticalHits == BuildHits(vulnerablePackages, usageAnalysis)
        IN  StableSort([i \in 1..Len(criticalHits) |->
                            <<0 - criticalHits[i].threatScore, criticalHits[i]>>])

-----------------------------------------------------------------------------
(* PatchAnalyzer (src/unnamed/part_001) *)

\* A non-negative number as its decimal digits.
RECURSIVE NumToDigits(_)
NumToDigits(n) ==
    LET d == CHOOSE c \in Digits : DigitVal(c) = n % 10
    IN  IF n < 10 THEN <<d>> ELSE Append(NumToDigits(n \div 10), d)

\* semver.inc(version, 'patch'): [ok, version]; ok = FALSE for null.
SemverIncPatch(s) ==
    LET sv == ParseSemVer(s)
    IN  IF ~sv.ok THEN [ok |-> FALSE, version |-> <<>>]
        ELSE [ok |-> TRUE,
              version |-> NumToDigits(sv.v[1]) \o <<".">> \o NumToDigits(sv.v[2])
                          \o <<".">> \o NumToDigits(sv.v[3] + 1)]

\* analyzeImpact: isDirect is the constant true, so isAffected is too.
analyzeImpact(importedFiles) ==
    LET isImported == Len(importedFiles) > 0
        isDirect   == TRUE
    IN  [isAffected |-> isImported \/ isDirect,
         reason |-> IF isImported THEN "Package is imported in file(s)"
                    ELSE "Package is a dependency but not directly imported in source files",
         importedInFiles |-> importedFiles,
         isDirectDependency |-> isDirect,
         isTransitiveDependency |-> ~isDirect]

\* severityMap, in tenths.
severityMap(severity) ==
    CASE severity = "critical" -> 95
      [] severity = "high"     -> 80
      [] severity = "medium"   -> 55
      [] severity = "low"      -> 20
      [] OTHER                 -> 50

\* The plan scorer's scale before rounding: score * 10 in 1/PlanScale.
PlanScale == 100

\* PatchAnalyzer.calculateThreatScore: Math.min(Math.round(score * 10), 100).
planThreatScore(vulnerability, evidence) ==
    LET score == IF vulnerability.cvss10 # 0 THEN vulnerability.cvss10
                 ELSE severityMap(vulnerability.severity)
        s0 == score * PlanScale
        s1 == IF ~evidence.isAffected THEN (s0 * 3) \div 10
              ELSE IF Len(evidence.importedInFiles) > 5 THEN (s0 * 11) \div 10
              ELSE s0
    IN  Min((s1 + PlanScale \div 2) \div PlanScale, 100)

\* determineRecommendedVersion
determineRecommendedVersion(vulnerability) ==
    LET current  == vulnerability.currentVersion
        minFixed == StripLeadingOps(vulnerability.fixedVersions)
        bumped   == SemverIncPatch(current)
    IN  IF minFixed # <<>> /\ SemverValid(minFixed) THEN minFixed
        ELSE IF bumped.ok THEN bumped.version
        ELSE current

\* generateMockAnalysis: [ok, analysis, migration]; ok = FALSE where
\* semver.major throws on a version that does not parse.
generateMockAnalysis(vulnerability, evidence, recommendedVersion) ==
    LET rec == ParseSemVer(recommendedVersion)
        cur == ParseSemVer(vulnerability.currentVersion)
    IN  IF ~rec.ok \/ ~cur.ok
        THEN [ok |-> FALSE,
              analysis  |-> [threatScore |-> 0, evidence |-> "", recommendedVersion |-> <<>>,
                             confidence |-> ""],
              migration |-> [breakingChanges |-> "", rollbackPlan |-> ""]]
        ELSE [ok |-> TRUE,
              analysis  |-> [threatScore |-> planThreatScore(vulnerability, evidence),
                             evidence |-> evidence.reason,
                             recommendedVersion |-> recommendedVersion,
                             confidence |-> IF evidence.isAffected THEN "high" ELSE "medium"],
              migration |-> [breakingChanges |->
                                IF rec.v[1] # cur.v[1] THEN "major" ELSE "patch",
                             rollbackPlan |-> "mock"]]

\* What the reasoning backend does with one request: the call fails in one
\* of four ways, or its content parses to llmResult.  A field the response
\* omits is 0 or "" (both falsy).
LlmFailures == {"transport", "non2xx", "nocontent", "badjson"}

LlmResponse(status, threatScore, confidence) ==
    [status |-> status, threatScore |-> threatScore, confidence |-> confidence]

\* callLLM: on any failure the catch block returns generateMockAnalysis.
callLLM(vulnerability, evidence, recommendedVersion, llm) ==
    IF llm.status \in LlmFailures
    THEN generateMockAnalysis(vulnerability, evidence, recommendedVersion)
    ELSE [ok |-> TRUE,
          analysis  |-> [threatScore |-> IF llm.threatScore # 0 THEN llm.threatScore
                                         ELSE planThreatScore(vulnerability, evidence),
                         evidence |-> evidence.reason,
                         recommendedVersion |-> recommendedVersion,
                         confidence |-> IF llm.confidence # "" THEN llm.confidence
                                        ELSE IF evidence.isAffected THEN "high" ELSE "medium"],
          migration |-> [breakingChanges |-> "llm", rollbackPlan |-> "llm"]]

\* analyze: [ok, evidence, analysis, migration, llmModel]; ok = FALSE where
\* the returned promise rejects.
analyze(vulnerability, importedFiles, llmEnabled, llm) ==
    LET evidence == analyzeImpact(importedFiles)
        recommendedVersion == determineRecommendedVersion(vulnerability)
        res == IF llmEnabled
               THEN callLLM(vulnerability, evidence, recommendedVersion, llm)
               ELSE generateMockAnalysis(vulnerability, evidence, recommendedVersion)
    IN  [ok |-> res.ok, evidence |-> evidence, analysis |-> res.analysis,
         migration |-> res.migration,
         llmModel |-> IF llmEnabled THEN "anthropic/claude-3-haiku" ELSE "mock"]

-----------------------------------------------------------------------------
(* VulnerabilityMonitor.  Node runs one callback at a time, so an action   *)
(* is what one invocation does between two awaits: it resumes after the    *)
(* awaited collaborator call settles and runs to the next await or to the  *)
(* end.  tasks[t] is the t-th invocation made on the monitor.              *)

MaxTasks == 2      \* invocations made on the monitor in one run

MaxFaults == 1     \* collaborator calls that fail in one run

\* What getFileContent does: content, null, or an exception.
Fetches == {"ok", "absent", "throw"}

FetchFaults(manifestFetch, lockFetch) ==
    (IF manifestFetch = "ok" THEN 0 ELSE 1) + (IF lockFetch = "ok" THEN 0 ELSE 1)

\* A RepositoryMonitoring row (initializeMonitoredRepositories, lines 801-813).
\* lastScanned = 0 is undefined; a scan stamps it with its invocation number.
NewRegistration(repositoryId) ==
    [repositoryId |-> repositoryId, registered |-> TRUE, packageManager |-> "npm",
     manifestPath |-> "package.json", lockfilePath |-> "package-lock.json",
     isActive |-> TRUE, lastScanned |-> 0, criticalHitCount |-> 0, totalPackages |-> 0]

NoRegistration(repositoryId) ==
    [NewRegistration(repositoryId) EXCEPT !.registered = FALSE, !.isActive = FALSE]

EmptyResult(repositoryId) ==
    [repositoryId |-> repositoryId, packagesScanned |-> 0, vulnerabilitiesFound |-> 0,
     criticalHitsCount |-> 0, lowPriority |-> 0, criticalHits |-> <<>>]

\* The frame of one scanRepository call.  manifestOk and hitsOk record
\* whether the manifest fetch succeeded in scanRepository's own parse and in
\* findCriticalHits'; failed, whether the scan ended in its catch block;
\* matched, how many packages findCriticalHits matched; usageAnalysed, whether
\* it called analyzePackageUsage; workflows, the triggerPatchWorkflow calls
\* made, each with the hit's vulnerability and how the call ended.
NoScan ==
    [repo |-> NoRegistration(""), packages |-> <<>>, vulnerabilities |-> <<>>,
     criticalHits |-> <<>>, hitIdx |-> 0, manifestOk |-> TRUE, hitsOk |-> TRUE,
     failed |-> FALSE, matched |-> 0, usageAnalysed |-> FALSE, workflows |-> <<>>]

\* What is kept of a frame when scanRepository returns.
ScanLogEntry(scan) ==
    [manifestOk |-> scan.manifestOk, hitsOk |-> scan.hitsOk, failed |-> scan.failed,
     matched |-> scan.matched, usageAnalysed |-> scan.usageAnalysed,
     workflows |-> scan.workflows]

NewTask(kind) ==
    [kind |-> kind, pc |-> "new", outcome |-> "pending", cycle |-> "none",
     busyAtCall |-> FALSE, regIdx |-> 0, newVulnerabilities |-> <<>>, enumerated |-> FALSE,
     repositories |-> <<>>, idx |-> 0, scanResults |-> <<>>, scanLog |-> <<>>,
     scan |-> NoScan]

TaskIds == 1..Len(tasks)

AdvisorySeq(ids) == SelectSeq(AdvisoryOrder, LAMBDA id : id \in ids)

VulnRecords(ids) == [i \in 1..Len(ids) |-> Advisories[ids[i]]]

\* A variant of performFullScan without the single-flight check.
NoScanGuard(running) == FALSE

\* performFullScan, lines 540-542: the single-flight check.
ScanInProgress(running) == running

\* The cron callback, lines 504-507: skip when a scan is running.
TimerSkips(running) == running

\* performFullScan up to its first await: throw when a scan is in progress,
\* else take the flag and call scanner.scanAllSources().
EnterFullScan(task, running) ==
    IF ScanInProgress(running)
    THEN [task EXCEPT !.pc = "done", !.busyAtCall = running,
                      !.outcome = IF task.kind = "timer" THEN "returned" ELSE "threw"]
    ELSE [task EXCEPT !.pc = "ingest", !.cycle = "running", !.busyAtCall = running]

\* performFullScan's exit: how is "returned" or "threw".  The cron callback
\* catches what performFullScan throws; startMonitoring does not.
FinishCycle(task, how) ==
    [task EXCEPT !.pc = "done", !.cycle = how,
                 !.outcome = IF task.kind = "timer" THEN "returned" ELSE how]

\* A variant of performFullScan without the finally block: the flag is
\* reset only when the cycle returns.
RunningLeftOnThrow(old, new, running) ==
    IF old.cycle = "running" /\ new.cycle = "returned" THEN FALSE
    ELSE IF old.cycle = "none" /\ new.cycle = "running" THEN TRUE
    ELSE running

\* isRunning after an invocation moves from old to new: set at line 544,
\* reset in the finally block at line 589.
RunningAfter(old, new, running) ==
    IF old.cycle = "running" /\ new.cycle # "running" THEN FALSE
    ELSE IF old.cycle = "none" /\ new.cycle = "running" THEN TRUE
    ELSE running

\* scanRepository up to its first await (the manifest fetch of parseManifest).
BeginScan(task, repo) ==
    [task EXCEPT !.pc = "parse", !.scan = [NoScan EXCEPT !.repo = repo]]

\* performFullScan's loop: the next repository, or the end of the cycle.
NextRepo(task) ==
    IF task.idx < Len(task.repositories)
    THEN BeginScan([task EXCEPT !.idx = @ + 1], task.repositories[task.idx + 1])
    ELSE FinishCycle(task, "returned")

\* A variant of the loop without its per-repository catch: the failure
\* leaves performFullScan through its outer catch.
AbortCycle(task) == FinishCycle(task, "threw")

\* A failure of updateRepositoryStatus in the loop is caught at line 576.
AfterUpdateFailure(task) == NextRepo(task)

\* scanRepository returns result to its caller.  In a cycle the caller pushes
\* it, stamps the row (lines 571-573) and awaits updateRepositoryStatus.
ReturnScan(task, t, result) ==
    LET logged == [task EXCEPT !.scanResults = Append(@, result),
                               !.scanLog = Append(@, ScanLogEntry(task.scan)),
                               !.scan = NoScan]
    IN  IF task.kind = "manual"
        THEN [logged EXCEPT !.pc = "done", !.outcome = "returned"]
        ELSE [logged EXCEPT !.pc = "update",
                            !.repositories[task.idx] =
                                [@ EXCEPT !.lastScanned = t,
                                          !.criticalHitCount = result.criticalHitsCount,
                                          !.totalPackages = result.packagesScanned]]

\* scanRepository's catch block, lines 650-665.
FailScan(task, t) ==
    ReturnScan([task EXCEPT !.scan.failed = TRUE], t,
               EmptyResult(task.scan.repo.repositoryId))

\* criticalHits.filter(hit => hit.impactLevel === 'CRITICAL_HIT')
NewCriticalHits(criticalHits) ==
    SelectSeq(criticalHits, LAMBDA hit : hit.impactLevel = "CRITICAL_HIT")

\* The ScanResult of lines 632-642.
BuildScanResult(scan) ==
    LET newCriticalHits == NewCriticalHits(scan.criticalHits)
    IN  [repositoryId |-> scan.repo.repositoryId,
         packagesScanned |-> Len(scan.packages),
         vulnerabilitiesFound |-> Len(scan.vulnerabilities),
         criticalHitsCount |-> Len(newCriticalHits),
         lowPriority |-> Len(scan.criticalHits) - Len(newCriticalHits),
         criticalHits |-> newCriticalHits]

-----------------------------------------------------------------------------
(* VulnerabilityDatabase: the persistence collaborator.  Its file is not   *)
(* among the sources; these follow the specification's sections 4.7 and 6. *)

\* getMonitoredRepositories: the active registrations.
DbMonitoredRepositories(status) ==
    LET ids == SelectSeq(ConfiguredRepos,
                         LAMBDA id : status[id].registered /\ status[id].isActive)
    IN  [i \in 1..Len(ids) |-> status[ids[i]]]

\* findVulnerabilities(packages): the persisted records for these packages.
DbFindVulnerabilities(db, packages) ==
    SelectSeq(AdvisoryOrder,
              LAMBDA id : /\ id \in db
                          /\ \E i \in 1..Len(packages) :
                                /\ packages[i].name = Advisories[id].packageName
                                /\ packages[i].ecosystem = Advisories[id].ecosystem)

-----------------------------------------------------------------------------
(* The monitor's operations *)

CanFail == faults < MaxFaults

CanCall == Len(tasks) < MaxTasks

InitMonitor ==
    /\ isRunning = FALSE
    /\ scheduledTask = 0
    /\ cronTasks = {}
    /\ tasks = <<>>
    /\ vulnDb = {}
    /\ repoStatus = [id \in RepoIds |-> NoRegistration(id)]
    /\ savedHits = <<>>
    /\ scanHistory = <<>>
    /\ prs = <<>>
    /\ useLLM \in BOOLEAN
    /\ faults = 0

\* One invocation moves from tasks[t] to new; nothing else changes.
Step(t, new) ==
    /\ tasks' = [tasks EXCEPT ![t] = new]
    /\ isRunning' = RunningAfter(tasks[t], new, isRunning)

\* startMonitoring is called (POST /monitoring/start): up to the await of
\* initializeMonitoredRepositories.
StartMonitoring ==
    /\ CanCall
    /\ tasks' = Append(tasks, [NewTask("start") EXCEPT !.pc = "register", !.regIdx = 1])
    /\ UNCHANGED <<isRunning, scheduledTask, cronTasks, vulnDb, repoStatus, savedHits,
                   scanHistory, prs, useLLM, faults, probe>>

\* initializeMonitoredRepositories goes on after the repository at regIdx:
\* the next configured repository's getRepositoryStatus call, or after the
\* last one cron.schedule and the initial performFullScan up to its first
\* await (lines 503-521).
Registered(t) ==
    IF tasks[t].regIdx < Len(ConfiguredRepos)
    THEN /\ Step(t, [tasks[t] EXCEPT !.pc = "register", !.regIdx = @ + 1])
         /\ UNCHANGED <<scheduledTask, cronTasks>>
    ELSE /\ scheduledTask' = t
         /\ cronTasks' = cronTasks \cup {t}
         /\ Step(t, EnterFullScan([tasks[t] EXCEPT !.regIdx = 0], isRunning))

\* A collaborator call of initializeMonitoredRepositories fails:
\* startMonitoring rejects.
RegistrationFails(t) ==
    /\ CanFail
    /\ faults' = faults + 1
    /\ Step(t, [tasks[t] EXCEPT !.pc = "done", !.outcome = "threw", !.regIdx = 0])
    /\ UNCHANGED <<scheduledTask, cronTasks, repoStatus>>

\* const existing = await getRepositoryStatus(repositoryId); if (existing)
\* (lines 796-797)
AlreadyMonitored(status, repositoryId) == status[repositoryId].registered

\* getRepositoryStatus settles for the repository at regIdx (lines 796-800):
\* a repository with a row is skipped, for another the new row is built and
\* updateRepositoryStatus called.
Register(t) ==
    /\ tasks[t].pc = "register"
    /\ \/ /\ IF AlreadyMonitored(repoStatus, ConfiguredRepos[tasks[t].regIdx])
             THEN Registered(t)
             ELSE /\ Step(t, [tasks[t] EXCEPT !.pc = "registerWrite"])
                  /\ UNCHANGED <<scheduledTask, cronTasks>>
          /\ UNCHANGED <<faults, repoStatus>>
       \/ RegistrationFails(t)
    /\ UNCHANGED <<vulnDb, savedHits, scanHistory, prs, useLLM, probe>>

\* updateRepositoryStatus(repoMonitoring) settles (line 816): the new row is
\* written.
RegisterWrite(t) ==
    /\ tasks[t].pc = "registerWrite"
    /\ \/ /\ LET repositoryId == ConfiguredRepos[tasks[t].regIdx]
             IN  repoStatus' = [repoStatus EXCEPT
                                   ![repositoryId] = NewRegistration(repositoryId)]
          /\ Registered(t)
          /\ UNCHANGED faults
       \/ RegistrationFails(t)
    /\ UNCHANGED <<vulnDb, savedHits, scanHistory, prs, useLLM, probe>>

\* stopMonitoring (POST /monitoring/stop)
StopMonitoring ==
    /\ scheduledTask # 0
    /\ scheduledTask \in cronTasks
    /\ cronTasks' = cronTasks \ {scheduledTask}
    /\ UNCHANGED <<isRunning, scheduledTask, tasks, vulnDb, repoStatus, savedHits,
                   scanHistory, prs, useLLM, faults, probe>>

\* A cron task's callback runs (lines 503-514), up to performFullScan's
\* first await.
TimerFire(c) ==
    /\ CanCall
    /\ c \in cronTasks
    /\ LET task == NewTask("timer")
           new  == IF TimerSkips(isRunning)
                   THEN [task EXCEPT !.pc = "done", !.outcome = "skipped",
                                     !.busyAtCall = isRunning]
                   ELSE EnterFullScan(task, isRunning)
       IN  /\ tasks' = Append(tasks, new)
           /\ isRunning' = RunningAfter(task, new, isRunning)
    /\ UNCHANGED <<scheduledTask, cronTasks, vulnDb, repoStatus, savedHits,
                   scanHistory, prs, useLLM, faults, probe>>

\* performFullScan is called directly, up to its first await.
DirectScan ==
    /\ CanCall
    /\ LET task == NewTask("direct")
           new  == EnterFullScan(task, isRunning)
       IN  /\ tasks' = Append(tasks, new)
           /\ isRunning' = RunningAfter(task, new, isRunning)
    /\ UNCHANGED <<scheduledTask, cronTasks, vulnDb, repoStatus, savedHits,
                   scanHistory, prs, useLLM, faults, probe>>

\* What the intelligence scanner may return in one call.
Feeds == {{}, AdvisoryIds}

\* scanner.scanAllSources() settles (line 550).  With nothing to save the
\* loop of line 554 is skipped.
Ingest(t) ==
    /\ tasks[t].pc = "ingest"
    /\ \/ /\ \E feed \in Feeds :
                Step(t, [tasks[t] EXCEPT
                            !.newVulnerabilities = AdvisorySeq(feed),
                            !.pc = IF feed = {} THEN "enumerate" ELSE "saveVulns"])
          /\ UNCHANGED faults
       \/ /\ CanFail
          /\ Step(t, FinishCycle(tasks[t], "threw"))
          /\ faults' = faults + 1
    /\ UNCHANGED <<scheduledTask, cronTasks, vulnDb, repoStatus, savedHits,
                   scanHistory, prs, useLLM, probe>>

\* The saveVulnerability calls of lines 554-556: all of them, or the first n
\* and then one that fails.
SaveVulns(t) ==
    /\ tasks[t].pc = "saveVulns"
    /\ LET ids == tasks[t].newVulnerabilities
       IN  \/ /\ vulnDb' = vulnDb \cup Range(ids)
              /\ Step(t, [tasks[t] EXCEPT !.pc = "enumerate"])
              /\ UNCHANGED faults
           \/ /\ CanFail
              /\ \E n \in 0..(Len(ids) - 1) :
                    vulnDb' = vulnDb \cup Range(SubSeq(ids, 1, n))
              /\ Step(t, FinishCycle(tasks[t], "threw"))
              /\ faults' = faults + 1
    /\ UNCHANGED <<scheduledTask, cronTasks, repoStatus, savedHits, scanHistory, prs,
                   useLLM, probe>>

\* getMonitoredRepositories settles (line 559); the loop starts.
Enumerate(t) ==
    /\ tasks[t].pc = "enumerate"
    /\ \/ /\ Step(t, NextRepo([tasks[t] EXCEPT
                                  !.repositories = DbMonitoredRepositories(repoStatus),
                                  !.enumerated = TRUE]))
          /\ UNCHANGED faults
       \/ /\ CanFail
          /\ Step(t, FinishCycle(tasks[t], "threw"))
          /\ faults' = faults + 1
    /\ UNCHANGED <<scheduledTask, cronTasks, vulnDb, repoStatus, savedHits, scanHistory,
                   prs, useLLM, probe>>

\* scanRepositoryById is called (POST /scan/repository/:owner/:repo): up to
\* the await of getRepositoryStatus.
ManualScan(repositoryId) ==
    /\ CanCall
    /\ tasks' = Append(tasks, [NewTask("manual") EXCEPT
                                  !.pc = "lookup",
                                  !.scan = [NoScan EXCEPT !.repo = NoRegistration(repositoryId)]])
    /\ UNCHANGED <<isRunning, scheduledTask, cronTasks, vulnDb, repoStatus, savedHits,
                   scanHistory, prs, useLLM, faults, probe>>

\* getRepositoryStatus settles (lines 824-829).
Lookup(t) ==
    /\ tasks[t].pc = "lookup"
    /\ LET repo == repoStatus[tasks[t].scan.repo.repositoryId]
       IN  \/ /\ Step(t, IF repo.registered THEN BeginScan(tasks[t], repo)
                         ELSE [tasks[t] EXCEPT !.pc = "done", !.outcome = "threw"])
              /\ UNCHANGED faults
           \/ /\ CanFail
              /\ Step(t, [tasks[t] EXCEPT !.pc = "done", !.outcome = "threw"])
              /\ faults' = faults + 1
    /\ UNCHANGED <<scheduledTask, cronTasks, vulnDb, repoStatus, savedHits, scanHistory,
                   prs, useLLM, probe>>

-----------------------------------------------------------------------------
(* scanRepository, step by step; the same steps serve a cycle and a manual *)
(* scan.                                                                   *)

\* parseManifest settles (line 602).  A cycle passes its vulnerabilities and
\* goes on to findCriticalHits; a manual scan asks the database.
Parse(t) ==
    /\ tasks[t].pc = "parse"
    /\ \E manifestFetch \in Fetches, lockFetch \in Fetches :
          /\ manifestFetch # "ok" => lockFetch = "ok"    \* the lockfile is not fetched
          /\ faults + FetchFaults(manifestFetch, lockFetch) <= MaxFaults
          /\ faults' = faults + FetchFaults(manifestFetch, lockFetch)
          /\ Step(t, [tasks[t] EXCEPT
                        !.scan.packages =
                            parseManifest(tasks[t].scan.repo, manifestFetch, lockFetch),
                        !.scan.manifestOk = (manifestFetch = "ok"),
                        !.scan.vulnerabilities =
                            IF tasks[t].kind = "manual" THEN <<>>
                            ELSE tasks[t].newVulnerabilities,
                        !.pc = IF tasks[t].kind = "manual" THEN "findVulns" ELSE "findHits"])
    /\ UNCHANGED <<scheduledTask, cronTasks, vulnDb, repoStatus, savedHits, scanHistory,
                   prs, useLLM, probe>>

\* database.findVulnerabilities settles (line 612).
FindVulns(t) ==
    /\ tasks[t].pc = "findVulns"
    /\ \/ /\ Step(t, [tasks[t] EXCEPT
                        !.scan.vulnerabilities =
                            DbFindVulnerabilities(vulnDb, tasks[t].scan.packages),
                        !.pc = "findHits"])
          /\ UNCHANGED faults
       \/ /\ CanFail
          /\ Step(t, FailScan(tasks[t], t))
          /\ faults' = faults + 1
    /\ UNCHANGED <<scheduledTask, cronTasks, vulnDb, repoStatus, savedHits, scanHistory,
                   prs, useLLM, probe>>

\* packageAnalyzer.findCriticalHits settles (line 616); it fetched the
\* manifest again.
FindHits(t) ==
    /\ tasks[t].pc = "findHits"
    /\ \E manifestFetch \in Fetches, lockFetch \in Fetches :
          /\ manifestFetch # "ok" => lockFetch = "ok"
          /\ faults + FetchFaults(manifestFetch, lockFetch) <= MaxFaults
          /\ faults' = faults + FetchFaults(manifestFetch, lockFetch)
          /\ LET repo  == tasks[t].scan.repo
                 vulns == VulnRecords(tasks[t].scan.vulnerabilities)
                 vulnerablePackages ==
                     matchVulnerablePackages(parseManifest(repo, manifestFetch, lockFetch),
                                             vulns)
             IN  Step(t, [tasks[t] EXCEPT
                            !.scan.criticalHits =
                                findCriticalHits(repo, vulns, manifestFetch, lockFetch),
                            !.scan.hitsOk = (manifestFetch = "ok"),
                            !.scan.matched = Len(vulnerablePackages),
                            !.scan.usageAnalysed = UsageAnalysed(vulnerablePackages),
                            !.pc = "saveHits"])
    /\ UNCHANGED <<scheduledTask, cronTasks, vulnDb, repoStatus, savedHits, scanHistory,
                   prs, useLLM, probe>>

\* database.saveCriticalHits settles (line 619); then the first patch
\* workflow, or with no CRITICAL_HIT the saveScanResult call.
SaveHits(t) ==
    /\ tasks[t].pc = "saveHits"
    /\ LET scan == tasks[t].scan
       IN  \/ /\ savedHits' = Append(savedHits, [repositoryId |-> scan.repo.repositoryId,
                                                 task |-> t, hits |-> scan.criticalHits])
              /\ Step(t, IF NewCriticalHits(scan.criticalHits) # <<>>
                         THEN [tasks[t] EXCEPT !.pc = "workflow", !.scan.hitIdx = 1]
                         ELSE [tasks[t] EXCEPT !.pc = "saveResult"])
              /\ UNCHANGED faults
           \/ /\ CanFail
              /\ Step(t, FailScan(tasks[t], t))
              /\ faults' = faults + 1
              /\ UNCHANGED savedHits
    /\ UNCHANGED <<scheduledTask, cronTasks, vulnDb, repoStatus, scanHistory, prs, useLLM,
                   probe>>

\* What the reasoning backend may answer.
LlmScores == {0, 50, 150}

LlmResponses ==
    {LlmResponse(st, sc, cf) :
        st \in LlmFailures \cup {"ok"}, sc \in LlmScores, cf \in {"", "low"}}

\* The pull request takes only the recommended version from the plan, which
\* no response changes: one response per status.
LlmStatuses == {LlmResponse(st, 0, "") : st \in LlmFailures \cup {"ok"}}

NoLlm == LlmResponse("ok", 0, "")

\* The Vulnerability that triggerPatchWorkflow builds (lines 676-686).
WorkflowVulnerability(hit) ==
    LET vuln == Advisories[hit.vulnerability]
    IN  [id |-> vuln.id,
         packageName |-> vuln.packageName,
         currentVersion |-> hit.packageInfo.version,
         severity |-> vuln.severity,
         cvss10 |-> vuln.cvss10,
         affectedVersions |-> vuln.affectedVersions,
         fixedVersions |-> vuln.fixedVersions]

\* A variant of the loop of lines 622-629 without its catch: the first
\* workflow that fails ends the loop.
StopAtWorkflowFailure(task, settled) ==
    LET newCriticalHits == NewCriticalHits(task.scan.criticalHits)
        hit == newCriticalHits[task.scan.hitIdx]
        logged == [task EXCEPT !.scan.workflows =
                      Append(@, [vulnerability |-> hit.vulnerability, settled |-> settled])]
    IN  IF task.scan.hitIdx < Len(newCriticalHits) /\ settled # "failed"
        THEN [logged EXCEPT !.scan.hitIdx = @ + 1]
        ELSE [logged EXCEPT !.pc = "saveResult"]

\* The loop of lines 622-629 after the workflow of the current hit settled:
\* the next CRITICAL_HIT, or saveScanResult, however the workflow ended.
AfterWorkflow(task, settled) ==
    LET newCriticalHits == NewCriticalHits(task.scan.criticalHits)
        hit == newCriticalHits[task.scan.hitIdx]
        logged == [task EXCEPT !.scan.workflows =
                      Append(@, [vulnerability |-> hit.vulnerability, settled |-> settled])]
    IN  IF task.scan.hitIdx < Len(newCriticalHits)
        THEN [logged EXCEPT !.scan.hitIdx = @ + 1]
        ELSE [logged EXCEPT !.pc = "saveResult"]

\* triggerPatchWorkflow for one CRITICAL_HIT settles (lines 623-629): the
\* plan is synthesized and the pull request created, or one of the two
\* fails, which line 626 catches.  Then the next hit, or saveScanResult.
Workflow(t) ==
    /\ tasks[t].pc = "workflow"
    /\ LET scan == tasks[t].scan
           newCriticalHits == NewCriticalHits(scan.criticalHits)
           hit == newCriticalHits[scan.hitIdx]
           vulnerability == WorkflowVulnerability(hit)
       IN  \E llm \in (IF useLLM THEN LlmStatuses ELSE {NoLlm}), prFails \in BOOLEAN :
              LET patchPlan == analyze(vulnerability, hit.usage.importFiles, useLLM, llm)
              IN  IF ~patchPlan.ok
                  THEN /\ ~prFails
                       /\ Step(t, AfterWorkflow(tasks[t], "failed"))
                       /\ UNCHANGED <<prs, faults>>
                  ELSE IF ~patchPlan.evidence.isAffected
                  THEN /\ ~prFails
                       /\ Step(t, AfterWorkflow(tasks[t], "unaffected"))
                       /\ UNCHANGED <<prs, faults>>
                  ELSE IF prFails
                  THEN /\ CanFail
                       /\ faults' = faults + 1
                       /\ Step(t, AfterWorkflow(tasks[t], "failed"))
                       /\ UNCHANGED prs
                  ELSE /\ prs' = Append(prs,
                              [repositoryId |-> scan.repo.repositoryId,
                               task |-> t,
                               vulnerabilityId |-> vulnerability.id,
                               packageName |-> vulnerability.packageName,
                               version |-> patchPlan.analysis.recommendedVersion])
                       /\ Step(t, AfterWorkflow(tasks[t], "patched"))
                       /\ UNCHANGED faults
    /\ UNCHANGED <<scheduledTask, cronTasks, vulnDb, repoStatus, savedHits, scanHistory,
                   useLLM, probe>>

\* database.saveScanResult settles (line 645) and scanRepository returns.
SaveResult(t) ==
    /\ tasks[t].pc = "saveResult"
    /\ LET scanResult == BuildScanResult(tasks[t].scan)
       IN  \/ /\ scanHistory' = Append(scanHistory, [task |-> t, result |-> scanResult])
              /\ Step(t, ReturnScan(tasks[t], t, scanResult))
              /\ UNCHANGED faults
           \/ /\ CanFail
              /\ Step(t, FailScan(tasks[t], t))
              /\ faults' = faults + 1
              /\ UNCHANGED scanHistory
    /\ UNCHANGED <<scheduledTask, cronTasks, vulnDb, repoStatus, savedHits, prs, useLLM,
                   probe>>

\* database.updateRepositoryStatus settles (line 574); then the next
\* repository or the end of the cycle.
UpdateStatus(t) ==
    /\ tasks[t].pc = "update"
    /\ LET repo == tasks[t].repositories[tasks[t].idx]
       IN  \/ /\ repoStatus' = [repoStatus EXCEPT ![repo.repositoryId] = repo]
              /\ Step(t, NextRepo(tasks[t]))
              /\ UNCHANGED faults
           \/ /\ CanFail
              /\ Step(t, AfterUpdateFailure(tasks[t]))
              /\ faults' = faults + 1
              /\ UNCHANGED repoStatus
    /\ UNCHANGED <<scheduledTask, cronTasks, vulnDb, savedHits, scanHistory, prs, useLLM,
                   probe>>

-----------------------------------------------------------------------------

NoProbe == [kind |-> "none"]

Init ==
    /\ InitMonitor
    /\ probe = NoProbe

Next ==
    \/ StartMonitoring
    \/ StopMonitoring
    \/ DirectScan
    \/ \E c \in cronTasks : TimerFire(c)
    \/ \E id \in RepoIds : ManualScan(id)
    \/ \E t \in TaskIds : Register(t)
    \/ \E t \in TaskIds : RegisterWrite(t)
    \/ \E t \in TaskIds : Ingest(t)
    \/ \E t \in TaskIds : SaveVulns(t)
    \/ \E t \in TaskIds : Enumerate(t)
    \/ \E t \in TaskIds : Lookup(t)
    \/ \E t \in TaskIds : Parse(t)
    \/ \E t \in TaskIds : FindVulns(t)
    \/ \E t \in TaskIds : FindHits(t)
    \/ \E t \in TaskIds : SaveHits(t)
    \/ \E t \in TaskIds : Workflow(t)
    \/ \E t \in TaskIds : SaveResult(t)
    \/ \E t \in TaskIds : UpdateStatus(t)

Spec == Init /\ [][Next]_vars

\* A step of invocation t in which a database, scanner or registration call
\* it awaits returns or fails.
SettleCall(t) ==
    /\ t \in TaskIds
    /\ \/ Register(t)
       \/ RegisterWrite(t)
       \/ Ingest(t)
       \/ SaveVulns(t)
       \/ Enumerate(t)
       \/ Lookup(t)
       \/ FindVulns(t)
       \/ SaveHits(t)
       \/ SaveResult(t)
       \/ UpdateStatus(t)

\* A step of invocation t in which parseManifest, findCriticalHits or
\* triggerPatchWorkflow settles.
SettleAnalysis(t) ==
    /\ t \in TaskIds
    /\ \/ Parse(t)
       \/ FindHits(t)
       \/ Workflow(t)

\* Invocation t awaits one of those three.  Each of them has a step in
\* which every fetch and call succeeds, whatever the fault budget:
\* AnalysisPending(t) is ENABLED <<SettleAnalysis(t)>>_vars.
AnalysisPending(t) ==
    t \in TaskIds /\ tasks[t].pc \in {"parse", "findHits", "workflow"}

\* The monitor when every awaited call settles: no invocation waits for
\* ever on a promise.  The second conjunct is WF_vars(SettleAnalysis(t))
\* with its enabling condition written out.
SpecLive ==
    Spec /\ \A t \in 1..MaxTasks :
                /\ WF_vars(SettleCall(t))
                /\ []<>(~AnalysisPending(t)) \/ []<><<SettleAnalysis(t)>>_vars

-----------------------------------------------------------------------------
(* Properties of the monitor *)

Running == {t \in TaskIds : tasks[t].cycle = "running"}

ScanPcs == {"parse", "findVulns", "findHits", "saveHits", "workflow", "saveResult"}

\* C1: at most one full scan cycle is running at any time, and a trigger
\* (cron callback or performFullScan call) that arrives while isRunning is
\* true starts no cycle, then or later: it is over at once and is not queued.
C1_SingleFlight ==
    /\ Cardinality(Running) <= 1
    /\ \A t \in TaskIds :
          tasks[t].busyAtCall => tasks[t].cycle = "none" /\ tasks[t].pc = "done"

\* A trigger arrived during a cycle, and that cycle has since ended.
C1_Witness ==
    \E t \in TaskIds, u \in TaskIds :
        /\ tasks[t].busyAtCall
        /\ tasks[u].cycle = "returned"
        /\ ~isRunning

\* C2: a manual single-repository scan never executes its pipeline while a
\* full cycle is running.
C2_ManualScanExcluded ==
    \A t \in TaskIds :
        tasks[t].kind = "manual" /\ tasks[t].pc \in ScanPcs => Running = {}

\* C3: once a cycle has enumerated its repositories, no failure of a step of
\* a repository's scan aborts it: the cycle does not throw, and when it ends
\* it has a result for every enumerated repository, in order.
C3_CycleSurvivesRepoFailure ==
    \A t \in TaskIds :
        tasks[t].enumerated =>
            /\ tasks[t].cycle # "threw"
            /\ tasks[t].pc = "done" =>
                  /\ tasks[t].cycle = "returned"
                  /\ Len(tasks[t].scanResults) = Len(tasks[t].repositories)
                  /\ \A i \in 1..Len(tasks[t].repositories) :
                        tasks[t].scanResults[i].repositoryId
                            = tasks[t].repositories[i].repositoryId

\* A cycle over two repositories has ended, and a collaborator call failed
\* while it was scanning them.
C3_Witness ==
    \E t \in TaskIds :
        /\ tasks[t].cycle = "returned"
        /\ Len(tasks[t].repositories) = 2
        /\ faults > 0
        /\ tasks[t].scanLog[1].failed

\* What scanRepository returns for repo when every collaborator call succeeds.
ScanAlone(repo, vulnerabilities) ==
    BuildScanResult([NoScan EXCEPT
        !.repo = repo,
        !.packages = parseManifest(repo, "ok", "ok"),
        !.vulnerabilities = vulnerabilities,
        !.criticalHits = findCriticalHits(repo, VulnRecords(vulnerabilities), "ok", "ok")])

ScanUnfailed(entry) == entry.manifestOk /\ entry.hitsOk /\ ~entry.failed

\* C4: when in one cycle over two repositories the manifest fetch of one
\* fails and the other's scan succeeds, the failing repository's ScanResult
\* is empty, every count zero, and the other's is the one it gets alone.
C4_FailedManifestGivesEmptyResult ==
    \A t \in TaskIds :
        tasks[t].cycle = "returned" /\ Len(tasks[t].repositories) = 2 =>
            \A i \in 1..2, j \in 1..2 :
                /\ i # j
                /\ ~tasks[t].scanLog[i].manifestOk
                /\ ScanUnfailed(tasks[t].scanLog[j])
                => /\ tasks[t].scanResults[i]
                        = EmptyResult(tasks[t].repositories[i].repositoryId)
                   /\ tasks[t].scanResults[j]
                        = ScanAlone([tasks[t].repositories[j] EXCEPT
                                        !.lastScanned = 0, !.criticalHitCount = 0,
                                        !.totalPackages = 0],
                                    tasks[t].newVulnerabilities)

HitsInState ==
    UNION ( {Range(tasks[t].scan.criticalHits) : t \in TaskIds}
       \cup UNION {{Range(tasks[t].scanResults[i].criticalHits) :
                       i \in 1..Len(tasks[t].scanResults)} : t \in TaskIds}
       \cup {Range(savedHits[i].hits) : i \in 1..Len(savedHits)}
       \cup {Range(scanHistory[i].result.criticalHits) : i \in 1..Len(scanHistory)} )

\* C5: every hit that findCriticalHits produced, wherever it is held, has
\* impactLevel CRITICAL_HIT if and only if its usage.isImported is true, and
\* LOW_PRIORITY otherwise.
C5_ImpactFollowsUsage ==
    \A hit \in HitsInState :
        hit.impactLevel = (IF hit.usage.isImported THEN "CRITICAL_HIT" ELSE "LOW_PRIORITY")

\* Hits of both levels have been produced and saved, one of them imported
\* yet scored under the configured critical-hit threshold of 70.
C5_Witness ==
    \E i \in 1..Len(savedHits) :
        /\ \E hit \in Range(savedHits[i].hits) :
              hit.impactLevel = "CRITICAL_HIT" /\ hit.threatScore < 70
        /\ \E hit \in Range(savedHits[i].hits) : hit.impactLevel = "LOW_PRIORITY"

\* A step of initializeMonitoredRepositories in invocation t.
RegistrationStep(t) ==
    tasks[t].pc \in {"register", "registerWrite"} /\ tasks'[t] # tasks[t]

\* C11: registration is idempotent: no step of initializeMonitoredRepositories
\* changes the row of a repository that is registered when the step is
\* taken, whatever startMonitoring calls and scans came before.
C11_RegistrationIdempotent ==
    [][\A t \in TaskIds :
          RegistrationStep(t) =>
              \A id \in RepoIds :
                  repoStatus[id].registered => repoStatus'[id] = repoStatus[id]]_vars

\* The scanRepository calls that have returned: the invocation and the
\* position of the call in it.
ReturnedScans == UNION {{<<t, i>> : i \in 1..Len(tasks[t].scanLog)} : t \in TaskIds}

ScanEntry(scanned) == tasks[scanned[1]].scanLog[scanned[2]]

ScanReturned(scanned) == tasks[scanned[1]].scanResults[scanned[2]]

\* The hits of a no-match scan: none found, none counted, no usage
\* detection and no patch workflow.
NoHits(scanned) ==
    /\ ScanReturned(scanned).criticalHits = <<>>
    /\ ScanReturned(scanned).criticalHitsCount = 0
    /\ ScanReturned(scanned).lowPriority = 0
    /\ ~ScanEntry(scanned).usageAnalysed
    /\ ScanEntry(scanned).workflows = <<>>

Quiescent == \A t \in TaskIds : tasks[t].pc = "done"

\* C15: a manual single-repository scan leaves the persisted effects of that
\* repository's pass inside performFullScan: once a manual scan has
\* returned and nothing is in flight, the repository's registration carries
\* a lastScanned stamp.
C15_ManualScanStampsRegistration ==
    \A t \in TaskIds :
        tasks[t].kind = "manual" /\ tasks[t].outcome = "returned" /\ Quiescent =>
            repoStatus[tasks[t].scanResults[1].repositoryId].lastScanned # 0

\* C16: the cycle goes Idle, Running, Idle: isRunning is true exactly while
\* a performFullScan call is between its entry and its exit, and whenever
\* it is true it is false again later, however the cycle ends (ingestion,
\* persistence or enumeration throwing included).
C16_CycleReturnsToIdle ==
    /\ [](isRunning <=> Running # {})
    /\ isRunning ~> ~isRunning

\* A cycle threw, the flag is down, and a later cycle has run to its end.
C16_Witness ==
    \E t \in TaskIds, u \in TaskIds :
        /\ t < u
        /\ tasks[t].cycle = "threw"
        /\ tasks[u].cycle = "returned"
        /\ ~isRunning

\* C17: an attempt to start a cycle while one is running is a skip: no
\* invocation that found a cycle in progress (cron callback, startMonitoring's
\* initial scan, direct performFullScan call) ends with an error raised to
\* its caller.
C17_BusyStartIsSkip ==
    \A t \in TaskIds : tasks[t].busyAtCall => tasks[t].outcome # "threw"

\* The call that invocation t awaits at one of pcs fails in this step.
FailsAt(t, pcs) ==
    tasks[t].pc \in pcs /\ tasks'[t] # tasks[t] /\ faults' > faults

\* C18: a failure of intelligence ingestion (scanAllSources, or persisting
\* a fetched record) is isolated: the step in which it fails leaves the cycle
\* running, on its way to the repositories, and raises nothing to the
\* caller of performFullScan.
C18_IngestionFailureIsolated ==
    [][\A t \in TaskIds :
          FailsAt(t, {"ingest", "saveVulns"}) =>
              tasks'[t].cycle = "running" /\ tasks'[t].outcome # "threw"]_vars

\* The vulnerabilities of a list of hits, or of workflow calls, in order.
VulnerabilityIds(entries) == [i \in 1..Len(entries) |-> entries[i].vulnerability]

\* C19: in a repository scan triggerPatchWorkflow is called once for each
\* CRITICAL_HIT, in order, and for no other hit, whether or not earlier
\* calls failed: while the loop runs the calls made are those for the hits
\* before the current one, after it they are those for all of them, and the
\* ScanResult returned lists and counts exactly the hits the calls were
\* made for, however the calls ended.
C19_WorkflowOncePerCriticalHit ==
    /\ \A t \in TaskIds :
          LET scan == tasks[t].scan
              critical == VulnerabilityIds(NewCriticalHits(scan.criticalHits))
          IN  /\ tasks[t].pc = "workflow" =>
                    VulnerabilityIds(scan.workflows) = SubSeq(critical, 1, scan.hitIdx - 1)
              /\ tasks[t].pc = "saveResult" =>
                    VulnerabilityIds(scan.workflows) = critical
    /\ \A scanned \in ReturnedScans :
          ~ScanEntry(scanned).failed =>
              /\ VulnerabilityIds(ScanEntry(scanned).workflows)
                    = VulnerabilityIds(ScanReturned(scanned).criticalHits)
              /\ ScanReturned(scanned).criticalHitsCount = Len(ScanEntry(scanned).workflows)
              /\ \A i \in 1..Len(ScanReturned(scanned).criticalHits) :
                    ScanReturned(scanned).criticalHits[i].impactLevel = "CRITICAL_HIT"

\* A scan returned two critical hits and a low-priority one; the workflow of
\* the first hit failed and that of the second created its pull request.
C19_Witness ==
    \E scanned \in ReturnedScans :
        /\ ~ScanEntry(scanned).failed
        /\ Len(ScanEntry(scanned).workflows) = 2
        /\ ScanEntry(scanned).workflows[1].settled = "failed"
        /\ ScanEntry(scanned).workflows[2].settled = "patched"
        /\ ScanReturned(scanned).criticalHitsCount = 2
        /\ ScanReturned(scanned).lowPriority = 1

\* stopMonitoring has stopped the task held in scheduledTask, and
\* startMonitoring has scheduled none since.
Stopped == scheduledTask # 0 /\ scheduledTask \notin cronTasks

\* C20: after stopMonitoring returns no timer trigger starts a cycle: no
\* cron task is left whose callback can run, however many times
\* startMonitoring was called before.
C20_StopPreventsTimerStarts ==
    Stopped => cronTasks = {}

\* C22: a cycle matches each repository against the persisted corpus: when
\* an earlier cycle u ingested and persisted a record, every scan of a later
\* cycle t that went without failure, over a repository holding a package
\* the record affects, matched something, whether or not the record came
\* again in t's own feed.
C22_PersistedCorpusMatched ==
    \A u \in TaskIds, t \in TaskIds :
        u < t /\ tasks[u].cycle = "returned" /\ tasks[t].kind # "manual" =>
            \A i \in 1..Len(tasks[t].scanLog), id \in Range(tasks[u].newVulnerabilities) :
                /\ ScanUnfailed(tasks[t].scanLog[i])
                /\ matchVulnerablePackages(
                       parseManifest(NewRegistration(tasks[t].scanResults[i].repositoryId),
                                     "ok", "ok"),
                       VulnRecords(<<id>>)) # <<>>
                => tasks[t].scanLog[i].matched > 0

\* C23: remediation comes after persistence: every pull request that
\* exists was created by a scan whose ScanResult is already in the scan
\* history.
C23_RemediationAfterPersistence ==
    \A i \in 1..Len(prs) :
        \E j \in 1..Len(scanHistory) :
            /\ scanHistory[j].task = prs[i].task
            /\ scanHistory[j].result.repositoryId = prs[i].repositoryId

\* C24: one ScanResult is persisted per repository per cycle: for every
\* scan a cycle has got a result from, failed scans with their empty result
\* included, the scan history holds exactly one entry of that cycle for that
\* repository, and it is the result the cycle got.
C24_OneResultPerRepositoryPerCycle ==
    \A scanned \in ReturnedScans :
        tasks[scanned[1]].kind # "manual" =>
            LET saved == {j \in 1..Len(scanHistory) :
                            /\ scanHistory[j].task = scanned[1]
                            /\ scanHistory[j].result.repositoryId
                                  = ScanReturned(scanned).repositoryId}
            IN  /\ Cardinality(saved) = 1
                /\ \A j \in saved : scanHistory[j].result = ScanReturned(scanned)

\* C27: every ScanResult that scanRepository returned agrees with the hits
\* saved for the repository in the same pass: its criticalHits are the saved
\* hits of level CRITICAL_HIT, criticalHitsCount is their number, and
\* criticalHitsCount + lowPriority is the number of saved hits.
C27_ResultAgreesWithSavedHits ==
    \A scanned \in ReturnedScans, k \in 1..Len(savedHits) :
        /\ savedHits[k].task = scanned[1]
        /\ savedHits[k].repositoryId = ScanReturned(scanned).repositoryId
        => /\ ScanReturned(scanned).criticalHits = NewCriticalHits(savedHits[k].hits)
           /\ ScanReturned(scanned).criticalHitsCount
                 = Len(ScanReturned(scanned).criticalHits)
           /\ ScanReturned(scanned).criticalHitsCount + ScanReturned(scanned).lowPriority
                 = Len(savedHits[k].hits)

\* C28: every hit a ScanResult reports is for a package it counted: a
\* returned ScanResult with packagesScanned 0 has no critical hit and
\* lowPriority 0, whatever the two manifest fetches of the scan gave.
C28_NoHitsWithoutPackages ==
    \A scanned \in ReturnedScans :
        ScanReturned(scanned).packagesScanned = 0 =>
            /\ ScanReturned(scanned).criticalHits = <<>>
            /\ ScanReturned(scanned).lowPriority = 0

\* C29: across cycles at most one pull request is created per repository
\* and vulnerability: no two pull requests created by scheduled cycles are
\* for the same repository and the same vulnerability.
C29_OnePullRequestPerHit ==
    \A i \in 1..Len(prs), j \in 1..Len(prs) :
        /\ i # j
        /\ tasks[prs[i].task].kind # "manual"
        /\ tasks[prs[j].task].kind # "manual"
        => <<prs[i].repositoryId, prs[i].vulnerabilityId>>
              # <<prs[j].repositoryId, prs[j].vulnerabilityId>>

\* C30: a repository scan that failed inside a cycle leaves the
\* registration's counters alone: the updateRepositoryStatus step that
\* follows a failed scan changes no repository's criticalHitCount or
\* totalPackages.
C30_FailedScanKeepsCounters ==
    [][\A t \in TaskIds :
          /\ tasks[t].pc = "update"
          /\ tasks'[t] # tasks[t]
          /\ tasks[t].scanLog[Len(tasks[t].scanLog)].failed
          => \A id \in RepoIds :
                /\ repoStatus'[id].criticalHitCount = repoStatus[id].criticalHitCount
                /\ repoStatus'[id].totalPackages = repoStatus[id].totalPackages]_vars

-----------------------------------------------------------------------------
(* The hit scorer on its own: calculateThreatScore over every input. *)

MaxCvss10 == 100       \* the greatest CVSS score, in tenths

MaxUsageCount == 10    \* the greatest usageCount (searchForImports finds 10)

Severities == {"critical", "high", "medium", "low"}

IdleMonitor == InitMonitor /\ useLLM = FALSE

ScoreInputs ==
    [kind : {"score"}, stage : {"input"},
     vuln : [severity : Severities, cvss10 : 0..MaxCvss10, isZeroDay : BOOLEAN,
             exploitAvailable : BOOLEAN, isKEV : BOOLEAN],
     pkg : [isDirect : BOOLEAN],
     usageCount : 0..MaxUsageCount]

ProbeUsage(isImported) ==
    [isImported |-> isImported, usageCount |-> probe.usageCount]

InitScore ==
    /\ IdleMonitor
    /\ probe \in ScoreInputs

\* calculateThreatScore is applied to the inputs, once with usage.isImported
\* true and once with it false; and, imported, with each intelligence flag
\* off and on, the others as given: the score before Math.round and the
\* clamp (rawByFlag) and the score returned (scoreByFlag).
ScoreHit ==
    /\ probe.kind = "score" /\ probe.stage = "input"
    /\ probe' = [kind |-> "score", stage |-> "scored",
                 vuln |-> probe.vuln, pkg |-> probe.pkg, usageCount |-> probe.usageCount,
                 imported |-> calculateThreatScore(probe.vuln, probe.pkg, ProbeUsage(TRUE)),
                 notImported |-> calculateThreatScore(probe.vuln, probe.pkg, ProbeUsage(FALSE)),
                 rawByFlag |->
                    [isZeroDay |-> [on \in BOOLEAN |->
                        RawThreatScore([probe.vuln EXCEPT !.isZeroDay = on],
                                       probe.pkg, ProbeUsage(TRUE))],
                     isKEV |-> [on \in BOOLEAN |->
                        RawThreatScore([probe.vuln EXCEPT !.isKEV = on],
                                       probe.pkg, ProbeUsage(TRUE))],
                     exploitAvailable |-> [on \in BOOLEAN |->
                        RawThreatScore([probe.vuln EXCEPT !.exploitAvailable = on],
                                       probe.pkg, ProbeUsage(TRUE))]],
                 scoreByFlag |->
                    [isZeroDay |-> [on \in BOOLEAN |->
                        calculateThreatScore([probe.vuln EXCEPT !.isZeroDay = on],
                                             probe.pkg, ProbeUsage(TRUE))],
                     isKEV |-> [on \in BOOLEAN |->
                        calculateThreatScore([probe.vuln EXCEPT !.isKEV = on],
                                             probe.pkg, ProbeUsage(TRUE))],
                     exploitAvailable |-> [on \in BOOLEAN |->
                        calculateThreatScore([probe.vuln EXCEPT !.exploitAvailable = on],
                                             probe.pkg, ProbeUsage(TRUE))]]]
    /\ UNCHANGED monitorVars

NextScore == ScoreHit

SpecScore == InitScore /\ [][NextScore]_vars

Scored == probe.kind = "score" /\ probe.stage = "scored"

\* C6: the threat score of a hit is an integer in [0, 100], for every
\* severity tier, every CVSS score from 0.0 to 10.0 or none, every usage
\* count, and every combination of the imported, direct, zero-day,
\* exploit-available and known-exploited flags.
C6_HitScoreInRange ==
    Scored => probe.imported \in 0..100 /\ probe.notImported \in 0..100

\* A score that the cap at 100 cut, and one that it left alone.
C6_Witness ==
    /\ Scored
    /\ RoundScaled(RawThreatScore(probe.vuln, probe.pkg, ProbeUsage(TRUE))) > 100
    /\ probe.imported = 100
    /\ probe.notImported \in 1..99
    /\ probe.vuln.isKEV

\* C8: all other inputs being equal, the hit scorer gives a strictly lower
\* score when usage.isImported is false than when it is true.
C8_NotImportedScoresLower ==
    Scored => probe.notImported < probe.imported

\* The two scores of a package with no counted usage, the lowest CVSS score
\* and no amplifying flag: the closest the two can be.
C8_Witness ==
    /\ Scored
    /\ probe.usageCount = 0
    /\ probe.vuln.cvss10 = 1
    /\ ~probe.pkg.isDirect /\ ~probe.vuln.isZeroDay /\ ~probe.vuln.exploitAvailable
    /\ probe.notImported < probe.imported

\* C21: each of the three intelligence flags amplifies the score: where the
\* score with the flag on is below the clamp at 100, turning any one of
\* zero-day, known-exploited or exploit-available on, the others unchanged,
\* does not lower the score returned and raises the score before the clamp.
C21_EachFlagAmplifies ==
    Scored =>
        \A flag \in {"isZeroDay", "isKEV", "exploitAvailable"} :
            probe.scoreByFlag[flag][TRUE] < 100 =>
                /\ probe.scoreByFlag[flag][TRUE] >= probe.scoreByFlag[flag][FALSE]
                /\ probe.rawByFlag[flag][TRUE] > probe.rawByFlag[flag][FALSE]

-----------------------------------------------------------------------------
(* PatchAnalyzer.analyze on its own: one vulnerability analysed with some  *)
(* imported files and with none, by the same backend.                      *)

MaxFiles == 6          \* the most imported files (more than 5 amplifies)

CurrentVersions == {V(<<"0", ".", "1", "9", ".", "0">>), V(<<"^", "0", ".", "1", "9", ".", "0">>)}

FixedVersions == {V(<<">", "=", "0", ".", "2", "1", ".", "1">>), V(<<">", "=", "1", ".", "0", ".", "0">>), V(<<>>)}

PlanInputs ==
    [kind : {"plan"}, stage : {"input"},
     vulnerability : [severity : Severities, cvss10 : 0..MaxCvss10,
                      currentVersion : CurrentVersions, fixedVersions : FixedVersions],
     files : 1..MaxFiles,
     llmEnabled : BOOLEAN]

\* n imported files, named by their number.
ImportedFiles(n) == [i \in 1..n |-> i]

InitPlan ==
    /\ IdleMonitor
    /\ probe \in PlanInputs

\* analyze is called on the vulnerability with its imported files and with
\* none; the reasoning backend, where enabled, answers both calls with llm.
AnalyzePlans ==
    /\ probe.kind = "plan" /\ probe.stage = "input"
    /\ \E llm \in (IF probe.llmEnabled THEN LlmResponses ELSE {NoLlm}) :
          probe' = [kind |-> "plan", stage |-> "analyzed",
                    vulnerability |-> probe.vulnerability, files |-> probe.files,
                    llmEnabled |-> probe.llmEnabled,
                    llmStatus |-> IF probe.llmEnabled THEN llm.status ELSE "unused",
                    plan |-> analyze(probe.vulnerability, ImportedFiles(probe.files),
                                     probe.llmEnabled, llm),
                    planNoImports |-> analyze(probe.vulnerability, <<>>,
                                              probe.llmEnabled, llm)]
    /\ UNCHANGED monitorVars

NextPlan == AnalyzePlans

SpecPlan == InitPlan /\ [][NextPlan]_vars

Analyzed == probe.kind = "plan" /\ probe.stage = "analyzed"

\* C7: the threat score in the analysis block of every plan that analyze
\* returns is in [0, 100], whichever backend produced the plan and whatever
\* the reasoning backend's response carries.
C7_PlanScoreInRange ==
    Analyzed =>
        /\ probe.plan.ok => probe.plan.analysis.threatScore \in 0..100
        /\ probe.planNoImports.ok => probe.planNoImports.analysis.threatScore \in 0..100

\* C9: with the deterministic backend, the plan for zero imported files has
\* a strictly lower threat score than the plan for the same vulnerability
\* with one or more imported files, and its evidence states that the
\* package is a dependency but not directly imported.
C9_NoImportsScoresLower ==
    Analyzed /\ ~probe.llmEnabled /\ probe.plan.ok /\ probe.planNoImports.ok =>
        /\ probe.planNoImports.analysis.threatScore < probe.plan.analysis.threatScore
        /\ probe.planNoImports.analysis.evidence
              = "Package is a dependency but not directly imported in source files"

\* C12: when the reasoning backend is enabled and its call fails (transport
\* failure, non-2xx response, missing content or malformed JSON), analyze
\* still returns a plan, for every vulnerability, current versions with a
\* range prefix included: no failure reaches the caller.
C12_FallbackAlwaysReturns ==
    Analyzed /\ probe.llmEnabled /\ probe.llmStatus \in LlmFailures =>
        probe.plan.ok /\ probe.planNoImports.ok

\* The plan the deterministic backend alone returns for the same inputs.
DeterministicPlan(vulnerability, importedFiles) ==
    analyze(vulnerability, importedFiles, FALSE, NoLlm)

\* C13: when the reasoning backend answers non-2xx, the plan analyze returns
\* equals the deterministic backend's plan for the same inputs: evidence,
\* analysis, migration and the backend label llmModel.
C13_FallbackEqualsDeterministic ==
    Analyzed /\ probe.llmEnabled /\ probe.llmStatus = "non2xx" /\ probe.plan.ok =>
        probe.plan = DeterministicPlan(probe.vulnerability, ImportedFiles(probe.files))

\* C25: with the deterministic backend the confidence follows the usage:
\* the plan for one or more importing files reports high, and the plan for
\* the same vulnerability with no importing file reports medium or low.
C25_ConfidenceFollowsUsage ==
    Analyzed /\ ~probe.llmEnabled /\ probe.plan.ok /\ probe.planNoImports.ok =>
        /\ probe.plan.analysis.confidence = "high"
        /\ probe.planNoImports.analysis.confidence \in {"medium", "low"}

-----------------------------------------------------------------------------
(* parseManifest on its own, over manifests and lockfiles in which a name  *)
(* may be declared in both dependency blocks and occur twice in a lockfile. *)

MaxEntries == 2        \* the most entries of a dependency block or lockfile

ManifestEntries ==
    {"axios", "lodash"} \X {V(<<"1", ".", "0", ".", "0">>), V(<<"2", ".", "0", ".", "0">>)}

\* The entries of a JSON object: no key twice.
ObjectEntries ==
    {es \in UNION {[1..n -> ManifestEntries] : n \in 0..MaxEntries} :
        \A i \in 1..Len(es), j \in 1..Len(es) : i # j => es[i][1] # es[j][1]}

\* What the lockfile's regular expression matches: a key may come again.
LockEntries == UNION {[1..n -> ManifestEntries] : n \in 0..MaxEntries}

InitManifest ==
    /\ IdleMonitor
    /\ \E deps \in ObjectEntries, devs \in ObjectEntries, lock \in LockEntries :
          probe = [kind |-> "manifest", stage |-> "input",
                   manifest |-> [dependencies |-> deps, devDependencies |-> devs,
                                 lockEntries |-> lock]]

\* parseManifest is applied to the manifest and the lockfile, both fetched.
ParseContent ==
    /\ probe.kind = "manifest" /\ probe.stage = "input"
    /\ probe' = [kind |-> "manifest", stage |-> "parsed",
                 manifest |-> probe.manifest,
                 packages |-> ManifestPackages(probe.manifest,
                                               NewRegistration("acme/api"), "ok")]
    /\ UNCHANGED monitorVars

NextManifest == ParseContent

SpecManifest == InitManifest /\ [][NextManifest]_vars

\* C26: the list parseManifest returns has at most one record per (name,
\* ecosystem, originating file), whatever the manifest and the lockfile
\* hold.
C26_OneRecordPerNameAndFile ==
    probe.kind = "manifest" /\ probe.stage = "parsed" =>
        \A i \in 1..Len(probe.packages), j \in 1..Len(probe.packages) :
            i # j =>
                <<probe.packages[i].name, probe.packages[i].ecosystem,
                  probe.packages[i].manifestFile>>
                    # <<probe.packages[j].name, probe.packages[j].ecosystem,
                        probe.packages[j].manifestFile>>

-----------------------------------------------------------------------------
(* isVersionAffected on its own, over version strings with and without a   *)
(* manifest prefix.                                                         *)

MaxVersionLen == 5     \* characters of a version after its prefix

VersionChars == {"1", "2", ".", "a"}

VersionPrefixes == {V(<<>>), V(<<"^">>), V(<<"~">>), V(<<"v">>), V(<<">", "=">>)}

RECURSIVE StringsUpTo(_)
StringsUpTo(n) ==
    IF n = 0 THEN {<<>>}
    ELSE LET shorter == StringsUpTo(n - 1)
         IN  shorter \cup {Append(w, c) : w \in shorter, c \in VersionChars}

AffectedRanges == {V(<<"<", "1", ".", "2", ".", "2">>), V(<<">", "=", "1", ".", "1", ".", "0">>), V(<<"^", "1", ".", "1", ".", "0">>), V(<<"~", "1", ".", "2", ".", "0">>), V(<<"*">>), V(<<"<", "a">>)}

InitVersion ==
    /\ IdleMonitor
    /\ \E prefix \in VersionPrefixes, body \in StringsUpTo(MaxVersionLen),
          range \in AffectedRanges :
          probe = [kind |-> "version", stage |-> "input",
                   version |-> prefix \o body, affectedRange |-> range]

\* isVersionAffected is applied to the version and the range.
CheckVersion ==
    /\ probe.kind = "version" /\ probe.stage = "input"
    /\ probe' = [kind |-> "version", stage |-> "checked",
                 version |-> probe.version, affectedRange |-> probe.affectedRange,
                 affected |-> isVersionAffected(probe.version, probe.affectedRange)]
    /\ UNCHANGED monitorVars

NextVersion == CheckVersion

SpecVersion == InitVersion /\ [][NextVersion]_vars

\* The version, once its leading non-digits are dropped, is no semantic
\* version, or the range is no range.
Unparseable(version, range) ==
    \/ ~SemverValid(StripLeadingNonDigits(version))
    \/ ParseRange(range) = InvalidRange

\* C10: for every version string or range that cannot be parsed as a
\* semantic version or range, isVersionAffected returns true.
C10_UnparseableIsAffected ==
    probe.kind = "version" /\ probe.stage = "checked"
        /\ Unparseable(probe.version, probe.affectedRange)
    => probe.affected

====
